---- MODULE Spec2Model ----
(***************************************************************************)
(* A model of src/src/Store/makeRedisStore.ts, the named export            *)
(* makeRedisStore (lines 186-448): a Redis-backed cache fed by Baileys     *)
(* events.  Every event handler and every query is an async function; it   *)
(* runs synchronously up to its next `await`, where the awaited command    *)
(* (a Redis call, or the remote sock.groupMetadata fetch) is issued, and    *)
(* other handlers may run before it is resumed.  Redis executes the        *)
(* commands of the one connection in the order they are issued, so a step  *)
(* of the model is: one handler issues its next command and the command    *)
(* takes effect.  The first command of a handler is issued in the same     *)
(* step as the delivery of its event.                                      *)
(***************************************************************************)
EXTENDS Integers, Sequences, FiniteSets, TLC

\* ------------------------------------------------------------------ bounds
MaxTasks == 2     \* events delivered plus queries called in one behaviour
MaxFail == 1      \* Redis calls that fail in one behaviour

\* ------------------------------------------------------- JavaScript values
\* An object is a function from its own property names to values; scalar
\* values are strings.  A property may be present with the value undefined.
Undefined == "<undefined>"
Null == "<null>"
EmptyObject == [k \in {} |-> Undefined]

\* JavaScript truthiness of a scalar (x || y, !x, if (x)).
Truthy(v) == v \notin {Undefined, Null, ""}

\* o.k : the value of a property read; undefined when o has no such property.
Prop(o, k) == IF k \in DOMAIN o THEN o[k] ELSE Undefined

\* { ...a, ...b } : the own properties of a, overlaid by those of b.
Spread(a, b) ==
  [k \in DOMAIN a \cup DOMAIN b |-> IF k \in DOMAIN b THEN b[k] ELSE a[k]]

\* Properties that hold an object or an array (never undefined in the model);
\* every other property holds a scalar.
ObjectKeys ==
  {"participants", "lastGroupUpdate", "lastParticipantUpdate"}

\* JSON.stringify drops the properties whose value is undefined; the stored
\* text is modelled by the object it denotes.
JSONstringifyDropsFalsy(o) ==
  [k \in {f \in DOMAIN o : f \in ObjectKeys \/ Truthy(o[f])} |-> o[k]]
JSONstringify(o) ==
  [k \in {f \in DOMAIN o : f \in ObjectKeys \/ o[f] # Undefined} |-> o[k]]
JSONparse(s) == s

\* a || b
Or(a, b) == IF Truthy(a) THEN a ELSE b

\* ---------------------------------------------------------- conversations
PersonJID == "a@s.whatsapp.net"
GroupJID == "g@g.us"
JID == {PersonJID, GroupJID}
\* chat.id.endsWith('@g.us')
endsWithGUs(jid) == jid = GroupJID

\* proto.WebMessageInfo.StubType
CIPHERTEXT == "CIPHERTEXT"
REVOKE == "REVOKE"

\* A WAMessage; key.remoteJid and key.id are flattened into the record.
Msg(jid, id, content, stub) ==
  [remoteJid |-> jid, id |-> id, message |-> content, messageStubType |-> stub]

\* ------------------------------------------------------- Redis primitives
\* SADD key member
saddReplace(set, member) == {member}
sadd(set, member) == set \cup {member}

\* RPUSH key value
lpush(list, value) == <<value>> \o list
rpush(list, value) == Append(list, value)

\* SET key value (on the map of one key family: chatmeta, contact, groupmeta)
redisSet(map, jid, value) ==
  [k \in DOMAIN map \cup {jid} |-> IF k = jid THEN value ELSE map[k]]

\* redis.set(`${prefix}:chatmeta:${chat.id}`, JSON.stringify(chat))
UnreadSum(a, b) ==
  LET n == CASE a = "1" -> 1 [] a = "2" -> 2 [] OTHER -> 3
      m == CASE b = "1" -> 1 [] b = "2" -> 2 [] OTHER -> 3
  IN IF n + m = 2 THEN "2" ELSE "3"
chatWriteAddingUnread(map, chat) ==
  IF chat.id \in DOMAIN map /\ "unreadCount" \in DOMAIN chat
       /\ "unreadCount" \in DOMAIN map[chat.id]
    THEN redisSet(map, chat.id,
           JSONstringify([chat EXCEPT !.unreadCount =
                            UnreadSum(map[chat.id].unreadCount, @)]))
    ELSE redisSet(map, chat.id, JSONstringify(chat))
chatWrite(map, chat) == redisSet(map, chat.id, JSONstringify(chat))

\* LRANGE key start stop: both ends inclusive, negative indexes count from
\* the tail, out-of-range indexes are clamped (0-based as in Redis).
LRange(list, start, stop) ==
  LET n == Len(list)
      s0 == IF start < 0 THEN n + start ELSE start
      e0 == IF stop < 0 THEN n + stop ELSE stop
      s == IF s0 < 0 THEN 0 ELSE s0
      e == IF e0 >= n THEN n - 1 ELSE e0
  IN IF s > e \/ s >= n THEN <<>> ELSE SubSeq(list, s + 1, e + 1)

\* Math.max(a, b)
MathMax(a, b) == IF a >= b THEN a ELSE b

\* ------------------------------------------------------------------ state
VARIABLES
  chatmeta,       \* ${prefix}:chatmeta:<jid> -> stored text; a partial map
  contact,        \* ${prefix}:contact:<jid>
  groupmeta,      \* ${prefix}:groupmeta:<jid>
  messages,       \* ${prefix}:chat:<jid>:messages, a list per conversation
  knownJIDs,      \* ${prefix}:knownJIDs, a set
  socketRef,      \* whether bind(ev, sock) has stored the socket
  tasks,          \* the handler and query invocations, in delivery order
  storeFailures   \* Redis calls that have failed so far

vars == <<chatmeta, contact, groupmeta, messages, knownJIDs, socketRef, tasks,
          storeFailures>>

Store ==
  [chatmeta |-> chatmeta, contact |-> contact, groupmeta |-> groupmeta,
   messages |-> messages, knownJIDs |-> knownJIDs]

\* ------------------------------------------------------------ invocations
\* One awaited call of a handler.  try = 0: the call is in no try block, a
\* failure rejects the handler; try = r > 0: the call is in try block r, a
\* failure skips the rest of that block.  soft: the call has a try block of
\* its own whose catch is empty.  null: the catch returns null.
Cmd(name, jid, val, region) ==
  [op |-> name, jid |-> jid, val |-> val, try |-> region,
   onFail |-> IF region = 0 THEN "throw" ELSE "catch"]
CmdOnFail(name, jid, val, how) ==
  [op |-> name, jid |-> jid, val |-> val, try |-> 0, onFail |-> how]

NoRet == [set |-> FALSE]
Ret(v) == [set |-> TRUE, null |-> FALSE, val |-> v]
NullRet == [set |-> TRUE, null |-> TRUE]

NoLoc ==
  [existing |-> EmptyObject, latestMeta |-> EmptyObject, total |-> 0, n |-> 0,
   now |-> 0]

\* st: "run" (suspended at an await), "done" (returned) or "rejected" (an
\* error left the function).  History kept for the properties: failed, a
\* Redis call of the invocation has failed; alone, no other invocation was in
\* flight when this one started; pre, the store when it started.
NewTask(kind, ev, ops, alone) ==
  [kind |-> kind, ev |-> ev, ops |-> ops, loc |-> NoLoc, st |-> "run",
   failed |-> FALSE, alone |-> alone, pre |-> Store, ret |-> NoRet]

Advance(t, rest) ==
  [t EXCEPT !.ops = rest, !.st = IF rest = <<>> THEN "done" ELSE "run"]

RECURSIVE DropRegion(_, _)
DropRegion(ops, r) ==
  IF ops # <<>> /\ Head(ops).try = r THEN DropRegion(Tail(ops), r) ELSE ops

IsFetch(op) == op.op \in {"fetch", "fetchSoft", "ggm.fetch"}

\* --------------------------------------------------------- merge policies
\* contacts.upsert: { ...existing, ...contact, name: contact.name ||
\* existing.name, verifiedName: ..., notify: ... }
mergeContactSpreadOnly(existing, incoming) == Spread(existing, incoming)
\* (a merge computed against what is stored when the write is made)
mergeContactAtomic(existing, incoming) ==
  LET current == IF incoming.id \in DOMAIN contact
                   THEN JSONparse(contact[incoming.id]) ELSE EmptyObject
  IN Spread(Spread(current, incoming),
            [name |-> Or(Prop(incoming, "name"), Prop(current, "name")),
             verifiedName |->
               Or(Prop(incoming, "verifiedName"),
                  Prop(current, "verifiedName")),
             notify |-> Or(Prop(incoming, "notify"), Prop(current, "notify"))])
mergeContact(existing, incoming) ==
  Spread(Spread(existing, incoming),
         [name |-> Or(Prop(incoming, "name"), Prop(existing, "name")),
          verifiedName |->
            Or(Prop(incoming, "verifiedName"), Prop(existing, "verifiedName")),
          notify |-> Or(Prop(incoming, "notify"), Prop(existing, "notify"))])

\* groups.update: { ...existingMeta, ...group, lastGroupUpdate: { updatedAt } }
mergeGroupUpdateReplace(existingMeta, group, now) ==
  Spread(group, [lastGroupUpdate |-> [updatedAt |-> now]])
mergeGroupUpdate(existingMeta, group, now) ==
  Spread(Spread(existingMeta, group),
         [lastGroupUpdate |-> [updatedAt |-> now]])

\* latestMeta.participants?.length || 0
participantCount(latestMeta) ==
  IF "participants" \in DOMAIN latestMeta
    THEN Len(latestMeta.participants) ELSE 0

\* latestMeta.participants?.filter(p => p.admin)?.map(p => p.id) || []
adminList(latestMeta) ==
  IF "participants" \in DOMAIN latestMeta
    THEN LET admins == SelectSeq(latestMeta.participants,
                                 LAMBDA p : Truthy(p.admin))
         IN [i \in 1..Len(admins) |-> admins[i].id]
    ELSE <<>>

\* group-participants.update: { ...existingMeta, ...latestMeta,
\* lastParticipantUpdate: { participants, action, updatedAt,
\* participantCount, adminList } }
mergeParticipantUpdate(existingMeta, latestMeta, update, now) ==
  Spread(Spread(existingMeta, latestMeta),
         [lastParticipantUpdate |->
            [participants |-> update.participants, action |-> update.action,
             updatedAt |-> now,
             participantCount |-> participantCount(latestMeta),
             adminList |-> adminList(latestMeta)]])

\* ------------------------------------- the awaited calls of each handler
\* messaging-history.set, message loop: the condition under which a message
\* is appended and its conversation registered.
historyAppendsJidOnly(msg) == Truthy(msg.remoteJid)
historyAppends(msg) ==
  /\ ~(~Truthy(msg.message) /\ msg.messageStubType = CIPHERTEXT)
  /\ Truthy(msg.remoteJid) /\ Truthy(msg.message)

\* messages.upsert: if (jid && msg.message)
upsertAppendsJidOnly(msg) == Truthy(msg.remoteJid)
upsertAppends(msg) == Truthy(msg.remoteJid) /\ Truthy(msg.message)

\* messaging-history.set: the try block over allMessages (try block 1).
RECURSIVE historyMessageCalls(_)
historyMessageCalls(msgs) ==
  IF msgs = <<>> THEN <<>>
  ELSE (IF historyAppends(Head(msgs))
          THEN <<Cmd("rpush", Head(msgs).remoteJid, Head(msgs), 1),
                 Cmd("sadd", Head(msgs).remoteJid, EmptyObject, 1)>>
          ELSE <<>>)
       \o historyMessageCalls(Tail(msgs))

\* messaging-history.set: the loop over chats; the group fetch of the i-th
\* chat is try block i + 1.
RECURSIVE historyChatCalls(_, _)
historyChatCalls(chats, i) ==
  IF chats = <<>> THEN <<>>
  ELSE <<Cmd("set.chatmeta", Head(chats).id, Head(chats), 0),
         Cmd("sadd", Head(chats).id, EmptyObject, 0)>>
       \o (IF endsWithGUs(Head(chats).id)
             THEN <<Cmd("fetch", Head(chats).id, EmptyObject, i + 1),
                    Cmd("set.fetched", Head(chats).id, EmptyObject, i + 1)>>
             ELSE <<>>)
       \o historyChatCalls(Tail(chats), i + 1)

\* messaging-history.set: the loop over contacts, a plain write.
RECURSIVE historyContactCalls(_)
historyContactCalls(contacts) ==
  IF contacts = <<>> THEN <<>>
  ELSE <<Cmd("set.contact", Head(contacts).id, Head(contacts), 0)>>
       \o historyContactCalls(Tail(contacts))

historySetCalls(ev) ==
  historyMessageCalls(ev.messages) \o historyChatCalls(ev.chats, 1)
    \o historyContactCalls(ev.contacts)

RECURSIVE messagesUpsertCalls(_)
messagesUpsertCalls(msgs) ==
  IF msgs = <<>> THEN <<>>
  ELSE (IF upsertAppends(Head(msgs))
          THEN <<Cmd("rpush", Head(msgs).remoteJid, Head(msgs), 0),
                 Cmd("sadd", Head(msgs).remoteJid, EmptyObject, 0)>>
          ELSE <<>>)
       \o messagesUpsertCalls(Tail(msgs))

RECURSIVE chatsUpsertCalls(_)
chatsUpsertCalls(chats) ==
  IF chats = <<>> THEN <<>>
  ELSE <<Cmd("set.chatmeta", Head(chats).id, Head(chats), 0),
         Cmd("sadd", Head(chats).id, EmptyObject, 0)>>
       \o chatsUpsertCalls(Tail(chats))

RECURSIVE contactsUpsertCalls(_)
contactsUpsertCalls(contacts) ==
  IF contacts = <<>> THEN <<>>
  ELSE <<Cmd("get.contact", Head(contacts).id, EmptyObject, 0),
         Cmd("set.mergedContact", Head(contacts).id, Head(contacts), 0)>>
       \o contactsUpsertCalls(Tail(contacts))

RECURSIVE groupsUpsertCalls(_)
groupsUpsertCalls(groups) ==
  IF groups = <<>> THEN <<>>
  ELSE <<Cmd("set.groupmeta", Head(groups).id, Head(groups), 0)>>
       \o groupsUpsertCalls(Tail(groups))

RECURSIVE groupsUpdateCalls(_)
groupsUpdateCalls(groups) ==
  IF groups = <<>> THEN <<>>
  ELSE <<Cmd("get.groupmeta", Head(groups).id, EmptyObject, 0),
         Cmd("set.mergedGroup", Head(groups).id, Head(groups), 0)>>
       \o groupsUpdateCalls(Tail(groups))

\* group-participants.update: one try block around the handler (block 1),
\* the fetch in a try block of its own with an empty catch.
groupParticipantsUpdateCallsUncaught(update) ==
  <<Cmd("get.groupmeta", update.id, EmptyObject, 0),
    [Cmd("fetchSoft", update.id, EmptyObject, 1) EXCEPT !.onFail = "soft"],
    Cmd("set.participants", update.id, update, 0)>>
groupParticipantsUpdateCalls(update) ==
  <<Cmd("get.groupmeta", update.id, EmptyObject, 1),
    [Cmd("fetchSoft", update.id, EmptyObject, 1) EXCEPT !.onFail = "soft"],
    Cmd("set.participants", update.id, update, 1)>>

\* ------------------------------------------- the awaited calls of queries
getKnownJIDsCalls == <<Cmd("smembers", PersonJID, EmptyObject, 0)>>
getMessagesCalls(jid) == <<Cmd("lrange.all", jid, EmptyObject, 0)>>

\* getSingleChatMessages(jid, count = 20, direction = 'latest'): an omitted
\* argument is a property the argument record lacks.
DefaultCount == 20
countOf(args) == IF "count" \in DOMAIN args THEN args.count ELSE DefaultCount
directionOf(args) ==
  IF "direction" \in DOMAIN args THEN args.direction ELSE "latest"
getSingleChatMessagesCalls(args) ==
  IF directionOf(args) = "latest"
    THEN <<Cmd("llen", args.jid, EmptyObject, 0),
           Cmd("lrange.latest", args.jid, [count |-> countOf(args)], 0)>>
    ELSE <<Cmd("lrange.earliest", args.jid, [count |-> countOf(args)], 0)>>

\* getGroupMetadata: the read; what follows depends on what it returns.
getGroupMetadataCalls(jid) == <<Cmd("ggm.get", jid, EmptyObject, 0)>>
\* getGroupMetadata: the try block taken when nothing is stored and a socket
\* is bound; its catch returns null.
getGroupMetadataFallbackThrows(jid) ==
  <<CmdOnFail("ggm.fetch", jid, EmptyObject, "throw"),
    CmdOnFail("ggm.set", jid, EmptyObject, "throw")>>
getGroupMetadataFallback(jid) ==
  <<CmdOnFail("ggm.fetch", jid, EmptyObject, "null"),
    CmdOnFail("ggm.set", jid, EmptyObject, "null")>>

\* ------------------------------------------------------ remote collaborator
\* What sock.groupMetadata(jid) may resolve to (it may also reject).
RemoteMetas(jid) ==
  {[id |-> jid, subject |-> "Team", desc |-> "", owner |-> Undefined,
    participants |-> <<[id |-> "u1", admin |-> "admin"],
                       [id |-> "u2", admin |-> Null]>>],
   [id |-> jid, subject |-> "Crew"]}

\* What Date.now() may return.
Times == {1, 2}

\* The outcomes of one awaited call: a Redis call succeeds or fails, the
\* remote fetch resolves to a value or rejects.
Outcomes(op) ==
  IF IsFetch(op)
    THEN {[ok |-> TRUE, val |-> m, now |-> 0] : m \in RemoteMetas(op.jid)}
           \cup {[ok |-> FALSE]}
    ELSE {[ok |-> TRUE, val |-> EmptyObject, now |-> n] :
            n \in (IF op.op \in {"set.mergedGroup", "set.participants"}
                     THEN Times ELSE {0})}
           \cup (IF storeFailures < MaxFail THEN {[ok |-> FALSE]} ELSE {})

\* redis.get(key) read as `raw ? JSON.parse(raw) : {}`
getOrEmpty(map, jid) ==
  IF jid \in DOMAIN map THEN JSONparse(map[jid]) ELSE EmptyObject

\* raw.map(m => JSON.parse(m))
parseAll(raw) == [i \in 1..Len(raw) |-> JSONparse(raw[i])]

\* The awaited call op of invocation t fails.
ExecFail(S, t, op) ==
  LET f == [t EXCEPT !.failed = @ \/ ~IsFetch(op)]
  IN CASE op.onFail = "throw" ->
            [S |-> S, t |-> [f EXCEPT !.ops = <<>>, !.st = "rejected"]]
       [] op.onFail = "catch" ->
            [S |-> S, t |-> Advance(f, DropRegion(Tail(t.ops), op.try))]
       [] op.onFail = "soft" ->
            [S |-> S,
             t |-> Advance([f EXCEPT !.loc.latestMeta = EmptyObject],
                           Tail(t.ops))]
       [] op.onFail = "null" ->
            [S |-> S, t |-> [Advance(f, <<>>) EXCEPT !.ret = NullRet]]

\* The awaited call op of invocation t succeeds with outcome out; bound says
\* whether socketRef is set.
ExecOk(S, t, op, out, bound) ==
  LET rest == Tail(t.ops)
      next == Advance(t, rest)
      list == S.messages[op.jid]
  IN CASE op.op = "rpush" ->
            [S |-> [S EXCEPT !.messages[op.jid] =
                               rpush(@, JSONstringify(op.val))],
             t |-> next]
       [] op.op = "sadd" ->
            [S |-> [S EXCEPT !.knownJIDs = sadd(@, op.jid)], t |-> next]
       [] op.op = "set.chatmeta" ->
            [S |-> [S EXCEPT !.chatmeta = chatWrite(@, op.val)], t |-> next]
       [] op.op = "set.contact" ->
            [S |-> [S EXCEPT !.contact =
                               redisSet(@, op.jid, JSONstringify(op.val))],
             t |-> next]
       [] op.op = "set.groupmeta" ->
            [S |-> [S EXCEPT !.groupmeta =
                               redisSet(@, op.jid, JSONstringify(op.val))],
             t |-> next]
       [] op.op = "get.contact" ->
            [S |-> S,
             t |-> [next EXCEPT !.loc.existing = getOrEmpty(S.contact, op.jid)]]
       [] op.op = "get.groupmeta" ->
            [S |-> S,
             t |-> [next EXCEPT
                      !.loc.existing = getOrEmpty(S.groupmeta, op.jid)]]
       [] op.op = "set.mergedContact" ->
            [S |-> [S EXCEPT !.contact =
                      redisSet(@, op.jid,
                        JSONstringify(mergeContact(t.loc.existing, op.val)))],
             t |-> next]
       [] op.op = "set.mergedGroup" ->
            [S |-> [S EXCEPT !.groupmeta =
                      redisSet(@, op.jid,
                        JSONstringify(
                          mergeGroupUpdate(t.loc.existing, op.val, out.now)))],
             t |-> [next EXCEPT !.loc.now = out.now]]
       [] op.op \in {"fetch", "fetchSoft", "ggm.fetch"} ->
            [S |-> S, t |-> [next EXCEPT !.loc.latestMeta = out.val]]
       [] op.op = "set.fetched" ->
            [S |-> [S EXCEPT !.groupmeta =
                      redisSet(@, op.jid, JSONstringify(t.loc.latestMeta))],
             t |-> next]
       [] op.op = "set.participants" ->
            [S |-> [S EXCEPT !.groupmeta =
                      redisSet(@, op.jid,
                        JSONstringify(
                          mergeParticipantUpdate(t.loc.existing,
                            t.loc.latestMeta, op.val, out.now)))],
             t |-> [next EXCEPT !.loc.now = out.now]]
       [] op.op = "smembers" ->
            [S |-> S, t |-> [next EXCEPT !.ret = Ret(S.knownJIDs)]]
       [] op.op = "lrange.all" ->
            [S |-> S,
             t |-> [next EXCEPT !.ret = Ret(parseAll(LRange(list, 0, -1)))]]
       [] op.op = "llen" ->
            [S |-> S, t |-> [next EXCEPT !.loc.total = Len(list)]]
       [] op.op = "lrange.latest" ->
            [S |-> S,
             t |-> [next EXCEPT
                      !.loc.n = Len(list),
                      !.ret = Ret(parseAll(
                                LRange(list,
                                       MathMax(t.loc.total - op.val.count, 0),
                                       t.loc.total - 1)))]]
       [] op.op = "lrange.earliest" ->
            [S |-> S,
             t |-> [next EXCEPT
                      !.loc.n = Len(list),
                      !.ret = Ret(parseAll(
                                LRange(list, 0, op.val.count - 1)))]]
       [] op.op = "ggm.get" ->
            IF op.jid \notin DOMAIN S.groupmeta /\ bound
              THEN [S |-> S, t |-> Advance(t, getGroupMetadataFallback(op.jid))]
              ELSE [S |-> S,
                    t |-> [next EXCEPT !.ret =
                             IF op.jid \in DOMAIN S.groupmeta
                               THEN Ret(JSONparse(S.groupmeta[op.jid]))
                               ELSE NullRet]]
       [] op.op = "ggm.set" ->
            [S |-> [S EXCEPT !.groupmeta =
                      redisSet(@, op.jid, JSONstringify(t.loc.latestMeta))],
             t |-> [next EXCEPT !.ret = Ret(t.loc.latestMeta)]]

Exec(S, t, out, bound) ==
  IF out.ok THEN ExecOk(S, t, Head(t.ops), out, bound)
  ELSE ExecFail(S, t, Head(t.ops))

\* ---------------------------------------------------------------- actions
Init ==
  /\ chatmeta = EmptyObject
  /\ contact = EmptyObject
  /\ groupmeta = EmptyObject
  /\ messages = [j \in JID |-> <<>>]
  /\ knownJIDs = {}
  /\ socketRef = FALSE
  /\ tasks = <<>>
  /\ storeFailures = 0

NoneInFlight == \A i \in 1..Len(tasks) : tasks[i].st # "run"

\* Invocation number i (a new one when i = Len(tasks) + 1) issues its next
\* awaited call, which takes effect.
Run(i, t) ==
  \E out \in Outcomes(Head(t.ops)) :
    LET r == Exec(Store, t, out, socketRef)
    IN /\ chatmeta' = r.S.chatmeta
       /\ contact' = r.S.contact
       /\ groupmeta' = r.S.groupmeta
       /\ messages' = r.S.messages
       /\ knownJIDs' = r.S.knownJIDs
       /\ tasks' = IF i > Len(tasks) THEN Append(tasks, r.t)
                   ELSE [tasks EXCEPT ![i] = r.t]
       /\ storeFailures' = IF ~out.ok /\ ~IsFetch(Head(t.ops))
                             THEN storeFailures + 1 ELSE storeFailures
       /\ UNCHANGED socketRef

\* An async function is called: it runs to its first await, or returns at
\* once when it awaits nothing.
Start(kind, ev, ops) ==
  LET t == NewTask(kind, ev, ops, NoneInFlight)
  IN IF ops = <<>>
       THEN /\ tasks' = Append(tasks, [t EXCEPT !.st = "done"])
            /\ UNCHANGED <<chatmeta, contact, groupmeta, messages,
                           knownJIDs, socketRef, storeFailures>>
       ELSE Run(Len(tasks) + 1, t)

\* The model follows at most MaxTasks invocations.
CanStart == Len(tasks) < MaxTasks

\* bind(ev, sock): stores the socket and registers the handlers.
Bind ==
  /\ ~socketRef
  /\ socketRef' = TRUE
  /\ UNCHANGED <<chatmeta, contact, groupmeta, messages, knownJIDs, tasks,
                 storeFailures>>

DeliverHistorySet(ev) ==
  socketRef /\ CanStart
    /\ Start("messaging-history.set", ev, historySetCalls(ev))
DeliverMessagesUpsert(ev) ==
  socketRef /\ CanStart
    /\ Start("messages.upsert", ev, messagesUpsertCalls(ev.messages))
DeliverChatsUpsert(chats) ==
  socketRef /\ CanStart
    /\ Start("chats.upsert", chats, chatsUpsertCalls(chats))
DeliverContactsUpsert(contacts) ==
  socketRef /\ CanStart
    /\ Start("contacts.upsert", contacts, contactsUpsertCalls(contacts))
DeliverGroupsUpsert(groups) ==
  socketRef /\ CanStart
    /\ Start("groups.upsert", groups, groupsUpsertCalls(groups))
DeliverGroupsUpdate(groups) ==
  socketRef /\ CanStart
    /\ Start("groups.update", groups, groupsUpdateCalls(groups))
DeliverGroupParticipantsUpdate(update) ==
  socketRef /\ CanStart
    /\ Start("group-participants.update", update,
             groupParticipantsUpdateCalls(update))

CallGetKnownJIDs ==
  CanStart /\ Start("getKnownJIDs", EmptyObject, getKnownJIDsCalls)
CallGetMessages(jid) ==
  CanStart /\ Start("getMessages", [jid |-> jid], getMessagesCalls(jid))
CallGetSingleChatMessages(args) ==
  CanStart
    /\ Start("getSingleChatMessages", args, getSingleChatMessagesCalls(args))
CallGetGroupMetadata(jid) ==
  CanStart
    /\ Start("getGroupMetadata", [jid |-> jid], getGroupMetadataCalls(jid))

\* A suspended invocation is resumed and runs to its next await.
Resume(i) == tasks[i].st = "run" /\ Run(i, tasks[i])

\* ----------------------------------------------------------- event payloads
chatA == [id |-> PersonJID, name |-> "A", unreadCount |-> "1"]
chatA2 == [id |-> PersonJID, name |-> "A2", unreadCount |-> "2"]
chatG == [id |-> GroupJID, name |-> "G"]

contactAlice == [id |-> PersonJID, name |-> "Alice", notify |-> "A"]
contactVerified == [id |-> PersonJID, name |-> "", verifiedName |-> "Alice V"]
contactImg == [id |-> PersonJID, imgUrl |-> "u", notify |-> Undefined]
contactBare == [id |-> PersonJID]
contactG == [id |-> GroupJID, notify |-> "Gee"]

m1 == Msg(PersonJID, "1", "hi", Undefined)
m2 == Msg(PersonJID, "2", "yo", Undefined)
m3 == Msg(PersonJID, "3", "ok", Undefined)
d1 == Msg(GroupJID, "4", "hey", Undefined)
stubG == Msg(GroupJID, "5", Undefined, CIPHERTEXT)
revokedA == Msg(PersonJID, "6", Undefined, REVOKE)
noJid == Msg(Null, "7", "x", Undefined)

groupTeam == [id |-> GroupJID, subject |-> "Old", owner |-> "u1"]
groupPatch == [id |-> GroupJID, subject |-> "New"]
participantsAdd ==
  [id |-> GroupJID, participants |-> <<"u3">>, action |-> "add"]

\* ------------------------------------------------- the full specification
\* Every event kind and every modelled query, one small payload each.
Next ==
  \/ Bind
  \/ DeliverHistorySet([chats |-> <<chatG>>, contacts |-> <<contactBare>>,
                        messages |-> <<m1, stubG>>])
  \/ \E b \in {<<m2>>, <<revokedA, d1>>} :
       DeliverMessagesUpsert([messages |-> b])
  \/ DeliverChatsUpsert(<<chatA>>)
  \/ DeliverContactsUpsert(<<contactAlice>>)
  \/ DeliverGroupsUpsert(<<groupTeam>>)
  \/ DeliverGroupsUpdate(<<groupPatch>>)
  \/ DeliverGroupParticipantsUpdate(participantsAdd)
  \/ CallGetKnownJIDs
  \/ \E j \in JID : CallGetMessages(j)
  \/ CallGetSingleChatMessages([jid |-> PersonJID])
  \/ CallGetGroupMetadata(GroupJID)
  \/ \E i \in 1..Len(tasks) : Resume(i)

Spec == Init /\ [][Next]_vars

\* --------------------------------------------- the message specification
\* Message appends to two conversations and the message queries.
m4 == Msg(PersonJID, "8", "four", Undefined)
m5 == Msg(PersonJID, "9", "five", Undefined)

MessageBatches ==
  {<<m1, d1, m2, m3>>, <<m1, m2>>, <<m3>>, <<d1>>, <<revokedA, noJid, m2>>,
   <<m1, m2, m3, m4, m5>>}

MessageHistories ==
  {[chats |-> <<>>, contacts |-> <<>>, messages |-> <<m1, stubG, d1>>],
   [chats |-> <<>>, contacts |-> <<>>, messages |-> <<stubG>>],
   [chats |-> <<chatA>>, contacts |-> <<>>, messages |-> <<stubG, m2, m3>>]}

Counts == {0, 1, 2, 3}
WindowArgs ==
  {[jid |-> PersonJID], [jid |-> PersonJID, count |-> 2]}
    \cup {[jid |-> PersonJID, count |-> c, direction |-> d] :
            c \in Counts, d \in {"latest", "earliest"}}
    \cup {[jid |-> PersonJID, count |-> DefaultCount, direction |-> d] :
            d \in {"latest", "earliest"}}

NextMsg ==
  \/ Bind
  \/ \E b \in MessageBatches : DeliverMessagesUpsert([messages |-> b])
  \/ \E h \in MessageHistories : DeliverHistorySet(h)
  \/ \E j \in JID : CallGetMessages(j)
  \/ \E a \in WindowArgs : CallGetSingleChatMessages(a)
  \/ \E i \in 1..Len(tasks) : Resume(i)

SpecMsg == Init /\ [][NextMsg]_vars

\* ------------------------------------------------ the chat specification
\* Chat writes: chats.upsert, the chats of history snapshots, getKnownJIDs.
ChatBatches ==
  {<<chatA>>, <<chatA2>>, <<chatG>>, <<chatA, chatG>>, <<chatA, chatA2>>}

ChatHistories ==
  {[chats |-> <<chatA2>>, contacts |-> <<>>, messages |-> <<m1>>],
   [chats |-> <<chatG>>, contacts |-> <<>>, messages |-> <<>>]}

NextChat ==
  \/ Bind
  \/ \E b \in ChatBatches : DeliverChatsUpsert(b)
  \/ \E h \in ChatHistories : DeliverHistorySet(h)
  \/ CallGetKnownJIDs
  \/ \E i \in 1..Len(tasks) : Resume(i)

SpecChat == Init /\ [][NextChat]_vars

\* ----------------------------------------------- the group specification
\* Group metadata: the four writers and the getGroupMetadata query.
NextGroup ==
  \/ Bind
  \/ \E j \in JID : CallGetGroupMetadata(j)
  \/ DeliverGroupsUpsert(<<groupTeam>>)
  \/ DeliverGroupsUpdate(<<groupPatch>>)
  \/ DeliverGroupParticipantsUpdate(participantsAdd)
  \/ DeliverHistorySet([chats |-> <<chatG>>, contacts |-> <<>>,
                        messages |-> <<>>])
  \/ \E i \in 1..Len(tasks) : Resume(i)

SpecGroup == Init /\ [][NextGroup]_vars

\* --------------------------------------------- the contact specification
\* Contact merges and the contact writes of history snapshots.
ContactBatches ==
  {<<contactAlice>>, <<contactVerified>>, <<contactImg>>, <<contactBare>>,
   <<contactG>>, <<contactAlice, contactVerified>>}

ContactHistories ==
  {[chats |-> <<>>, contacts |-> <<c>>, messages |-> <<>>] :
     c \in {contactBare, contactAlice}}

NextContact ==
  \/ Bind
  \/ \E b \in ContactBatches : DeliverContactsUpsert(b)
  \/ \E h \in ContactHistories : DeliverHistorySet(h)
  \/ \E i \in 1..Len(tasks) : Resume(i)

SpecContact == Init /\ [][NextContact]_vars

\* --------------------------------------------- the content specification
\* Messages with and without a content payload (absent, or null), delivered
\* by messages.upsert and by history snapshots.
nullG == Msg(GroupJID, "10", Null, Undefined)

ContentBatches == {<<nullG, revokedA, m1>>, <<nullG>>, <<d1>>, <<stubG, m2>>}

ContentHistories ==
  {[chats |-> <<>>, contacts |-> <<>>, messages |-> <<revokedA, stubG, m2>>],
   [chats |-> <<>>, contacts |-> <<>>, messages |-> <<nullG>>],
   [chats |-> <<chatA>>, contacts |-> <<>>, messages |-> <<nullG, d1>>]}

NextContent ==
  \/ Bind
  \/ \E b \in ContentBatches : DeliverMessagesUpsert([messages |-> b])
  \/ \E h \in ContentHistories : DeliverHistorySet(h)
  \/ \E j \in JID : CallGetMessages(j)
  \/ CallGetKnownJIDs
  \/ \E i \in 1..Len(tasks) : Resume(i)

SpecContent == Init /\ [][NextContent]_vars

\* ----------------------------------------------- the merge specification
\* The read-merge-write handlers, on one contact id and one group id.
MergeContactBatches == {<<contactAlice>>, <<contactImg>>, <<contactG>>}

\* A second group (the handlers do not look at the form of a group's id),
\* and a patch that names a field with the value undefined.
groupOther == [id |-> PersonJID, subject |-> "Other"]
groupPatchDesc == [id |-> GroupJID, desc |-> "d", owner |-> Undefined]
GroupBatches == {<<groupTeam>>, <<groupOther>>}
GroupPatches == {<<groupPatch>>, <<groupPatchDesc>>, <<groupPatch, groupOther>>}

NextMerge ==
  \/ Bind
  \/ \E b \in MergeContactBatches : DeliverContactsUpsert(b)
  \/ \E b \in GroupBatches : DeliverGroupsUpsert(b)
  \/ \E b \in GroupPatches : DeliverGroupsUpdate(b)
  \/ DeliverGroupParticipantsUpdate(participantsAdd)
  \/ \E i \in 1..Len(tasks) : Resume(i)

SpecMerge == Init /\ [][NextMerge]_vars

\* ------------------------------------------------------ reading the history
Range(seq) == {seq[i] : i \in 1..Len(seq)}
IsPrefix(a, b) == Len(a) <= Len(b) /\ SubSeq(b, 1, Len(a)) = a
TaskIds == 1..Len(tasks)
Completed(i) == tasks[i].st = "done" /\ ~tasks[i].failed

\* The conversation ids an event names: chat ids, message remoteJids,
\* contact ids, group ids, the id of a participants update.
IdsNamed(t) ==
  CASE t.kind = "messaging-history.set" ->
         {c.id : c \in Range(t.ev.chats)}
           \cup {c.id : c \in Range(t.ev.contacts)}
           \cup {m.remoteJid :
                   m \in {x \in Range(t.ev.messages) : Truthy(x.remoteJid)}}
    [] t.kind = "messages.upsert" ->
         {m.remoteJid :
            m \in {x \in Range(t.ev.messages) : Truthy(x.remoteJid)}}
    [] t.kind \in {"chats.upsert", "contacts.upsert", "groups.upsert",
                   "groups.update"} ->
         {c.id : c \in Range(t.ev)}
    [] t.kind = "group-participants.update" -> {t.ev.id}
    [] OTHER -> {}

\* ------------------------------------------------------------------ claims

\* C1: knownJIDs only grows: whatever events are delivered and queries
\* called, in whatever interleaving, no step removes a member of the
\* knownJIDs set.
C1_KnownJIDsOnlyGrows == [][knownJIDs \subseteq knownJIDs']_vars

\* C1 witness: a conversation was registered by one event and a second,
\* different event has registered the other conversation since.
C1_Witness ==
  /\ Len(tasks) = 2 /\ NoneInFlight
  /\ tasks[1].kind = "chats.upsert"
  /\ tasks[2].kind = "messaging-history.set"
  /\ knownJIDs = JID

\* C2: once a handler has completed without store failure, every
\* conversation id its event named (chat id, message remoteJid, contact id,
\* group id, participants-update id) is a member of knownJIDs.
C2_EveryNamedIdIsKnown ==
  \A i \in TaskIds : Completed(i) => IdsNamed(tasks[i]) \subseteq knownJIDs

\* A message that carries a conversation id and a content payload.
ContentBearing(m) == Truthy(m.remoteJid) /\ Truthy(m.message)

\* The content-bearing messages of conversation c that an event carries, in
\* the order the event carries them.
Carried(t, c) ==
  IF t.kind \in {"messaging-history.set", "messages.upsert"}
    THEN SelectSeq(t.ev.messages,
                   LAMBDA m : ContentBearing(m) /\ m.remoteJid = c)
    ELSE <<>>

\* The content-bearing messages of c carried by the first n events, in
\* delivery order.
RECURSIVE Delivered(_, _)
Delivered(n, c) ==
  IF n = 0 THEN <<>> ELSE Delivered(n - 1, c) \o Carried(tasks[n], c)

\* The identity of a message within its conversation is its key.id.
MessageIds(seq) == [i \in 1..Len(seq) |-> seq[i].id]

\* The ids of what getMessages(c) would return now.
Stored(c) == MessageIds(parseAll(messages[c]))

\* C3: each conversation's message list is append-only: every step leaves
\* the list of every conversation c a prefix of what it becomes, a step that
\* appends to another conversation d leaves c's list unchanged, what
\* getMessages(c) returned stays a prefix of the list, and when the handlers
\* ran one after another without failure the list of c is exactly the
\* messages appended for c, in the order they were appended, whatever
\* appends to d came between them.
C3_AppendOnly ==
  /\ [][\A c \in JID :
          /\ IsPrefix(messages[c], messages'[c])
          /\ \A d \in JID \ {c} :
               messages'[d] # messages[d] => messages'[c] = messages[c]]_vars
  /\ [](\A i \in TaskIds :
          tasks[i].kind = "getMessages" /\ tasks[i].st = "done"
            => IsPrefix(MessageIds(tasks[i].ret.val), Stored(tasks[i].ev.jid)))
  /\ []((\A i \in TaskIds : Completed(i) /\ tasks[i].alone)
          => \A c \in JID : Stored(c) = MessageIds(Delivered(Len(tasks), c)))

\* C3 witness: m1, m2, m3 were appended to one conversation in that order
\* with an append to the other conversation between them, and getMessages
\* returned exactly m1, m2, m3.
C3_Witness ==
  /\ Len(tasks) = 2 /\ NoneInFlight
  /\ tasks[1].kind = "messages.upsert"
  /\ tasks[1].ev.messages = <<m1, d1, m2, m3>>
  /\ tasks[2].kind = "getMessages" /\ tasks[2].ev.jid = PersonJID
  /\ tasks[2].st = "done"
  /\ MessageIds(tasks[2].ret.val) = MessageIds(<<m1, m2, m3>>)
  /\ messages[GroupJID] # <<>>

\* C4: once every handler has completed (without store failure), the
\* content-bearing messages of each conversation are in its stored list in
\* the order in which the event source delivered them, also when a later
\* event was delivered while an earlier handler was suspended at an await.
C4_DeliveryOrderKept ==
  (\A i \in TaskIds : Completed(i))
    => \A c \in JID : Stored(c) = MessageIds(Delivered(Len(tasks), c))

Min(a, b) == IF a <= b THEN a ELSE b

\* The window the claim describes: of a list of n entries, the last (latest)
\* or first (earliest) min(count, n), in original order; count is 20 and
\* direction 'latest' when the caller gives none.
ClaimedWindow(list, args) ==
  LET n == Len(list)
      count == IF "count" \in DOMAIN args THEN args.count ELSE 20
      direction ==
        IF "direction" \in DOMAIN args THEN args.direction ELSE "latest"
      k == Min(count, n)
  IN IF direction = "latest" THEN SubSeq(list, n - k + 1, n)
     ELSE SubSeq(list, 1, k)

\* A completed getSingleChatMessages call during which nothing was appended
\* to the list it reads (the list had loc.n entries at its range read).
QuietWindowCall(i) ==
  /\ tasks[i].kind = "getSingleChatMessages" /\ tasks[i].st = "done"
  /\ directionOf(tasks[i].ev) = "latest" => tasks[i].loc.total = tasks[i].loc.n

\* C8: getSingleChatMessages(jid, count, direction) with no concurrent
\* append returns, for every count >= 0, exactly the last min(count, n)
\* entries ('latest') or the first min(count, n) entries ('earliest') of the
\* n stored, in original order; count defaults to 20, direction to 'latest'.
C8_WindowSemantics ==
  \A i \in TaskIds :
    QuietWindowCall(i)
      => tasks[i].ret.val
           = ClaimedWindow(SubSeq(parseAll(messages[tasks[i].ev.jid]), 1,
                                  tasks[i].loc.n),
                           tasks[i].ev)

\* C8, for the calls with count >= 1 only (not the claim: the part of it the
\* code satisfies).
C8_WindowSemanticsPositiveCount ==
  \A i \in TaskIds :
    QuietWindowCall(i) /\ countOf(tasks[i].ev) >= 1
      => tasks[i].ret.val
           = ClaimedWindow(SubSeq(parseAll(messages[tasks[i].ev.jid]), 1,
                                  tasks[i].loc.n),
                           tasks[i].ev)

\* The conversation ids that a delivered event registers according to the
\* claims: the ids of its chats and the remoteJids of its content-bearing
\* messages.
Registering(t) ==
  (IF t.kind = "messaging-history.set"
     THEN {c.id : c \in Range(t.ev.chats)}
     ELSE IF t.kind = "chats.upsert" THEN {c.id : c \in Range(t.ev)} ELSE {})
  \cup {c \in JID : Carried(t, c) # <<>>}

\* A decrypt-failure placeholder: no content payload, stub type CIPHERTEXT.
IsCiphertextStub(m) == ~Truthy(m.message) /\ m.messageStubType = CIPHERTEXT

\* C9: a messaging-history.set message with no content payload and stub
\* type CIPHERTEXT is never appended to a message list, and it never
\* registers its conversation: every member of knownJIDs is the id of a chat
\* or the remoteJid of a content-bearing message of some delivered event.
C9_StubSkipRule ==
  /\ \A c \in JID : \A k \in 1..Len(messages[c]) :
       ~IsCiphertextStub(
          [message |-> Prop(JSONparse(messages[c][k]), "message"),
           messageStubType |->
             Prop(JSONparse(messages[c][k]), "messageStubType")])
  /\ knownJIDs \subseteq UNION {Registering(tasks[i]) : i \in TaskIds}

\* C9 witness: a history snapshot whose only message is a CIPHERTEXT stub of
\* the group conversation has been processed to completion; the group has no
\* stored message and is not known.
C9_Witness ==
  /\ Len(tasks) >= 1 /\ NoneInFlight
  /\ tasks[1].kind = "messaging-history.set"
  /\ tasks[1].ev.messages = <<stubG>> /\ tasks[1].st = "done"
  /\ messages[GroupJID] = <<>>
  /\ GroupJID \notin knownJIDs

NameFields == {"name", "verifiedName", "notify"}
ContactFields == NameFields \cup {"id", "imgUrl", "status"}

\* The merge the claim describes, property by property.
ClaimedContactField(e, i, k) ==
  IF k \in NameFields
    THEN (IF Truthy(Prop(i, k)) THEN Prop(i, k) ELSE Prop(e, k))
    ELSE (IF k \in DOMAIN i THEN i[k] ELSE Prop(e, k))

\* C5: the contacts.upsert merge is non-destructive: the record a
\* contacts.upsert handler writes for incoming contact i, having read the
\* stored contact e, has for each of name, verifiedName and notify i's value
\* if that is truthy and e's otherwise, and for every other field i's value
\* if i has the field and e's otherwise.
C5_ContactMergeNonDestructive ==
  [][\A n \in TaskIds :
       LET t == tasks[n]
       IN (/\ t.st = "run"
           /\ Head(t.ops).op = "set.mergedContact"
           /\ tasks'[n] # t
           /\ tasks'[n].failed = t.failed)
          => /\ Head(t.ops).jid \in DOMAIN contact'
             /\ \A k \in ContactFields :
                  Prop(JSONparse(contact'[Head(t.ops).jid]), k)
                    = ClaimedContactField(t.loc.existing, Head(t.ops).val, k)
     ]_vars

\* C5 witness: {name: "Alice", notify: "A"} was stored and {name: "",
\* verifiedName: "Alice V"} was merged into it.
C5_Witness ==
  /\ Len(tasks) = 2 /\ NoneInFlight
  /\ tasks[1].kind = "contacts.upsert" /\ tasks[1].ev = <<contactAlice>>
  /\ tasks[2].kind = "contacts.upsert" /\ tasks[2].ev = <<contactVerified>>
  /\ tasks[2].loc.existing = JSONparse(JSONstringify(contactAlice))
  /\ PersonJID \in DOMAIN contact
  /\ contact[PersonJID]
       = [id |-> PersonJID, name |-> "Alice", notify |-> "A",
          verifiedName |-> "Alice V"]

\* C6: a stored contact's name fields are never erased: once the stored
\* contact of an id has a non-empty name, verifiedName or notify, no step
\* (of contacts.upsert or of a messaging-history.set carrying the same
\* contact id) leaves that field empty or absent.
C6_NameFieldsNeverErased ==
  [][\A j \in DOMAIN contact : \A k \in NameFields :
       Truthy(Prop(JSONparse(contact[j]), k))
         => j \in DOMAIN contact' /\ Truthy(Prop(JSONparse(contact'[j]), k))
    ]_vars

\* A handler run from store S to its end with no other handler in between
\* and every call succeeding.
RECURSIVE RunToEnd(_, _)
RunToEnd(S, t) ==
  IF t.ops = <<>> THEN S
  ELSE LET r == Exec(S, t, [ok |-> TRUE, val |-> EmptyObject, now |-> 0], TRUE)
       IN RunToEnd(r.S, r.t)

AfterChatsUpsert(S, chats) ==
  RunToEnd(S, NewTask("chats.upsert", chats, chatsUpsertCalls(chats), TRUE))

\* Task n processed the same chats.upsert event as task n - 1, right after it,
\* and no other handler was in flight while either of the two ran.
IsReplay(n) ==
  /\ n >= 2 /\ n = Len(tasks)
  /\ tasks[n].kind = "chats.upsert" /\ tasks[n - 1].kind = "chats.upsert"
  /\ tasks[n].ev = tasks[n - 1].ev
  /\ Completed(n) /\ Completed(n - 1)
  /\ tasks[n - 1].alone /\ tasks[n].alone

\* C7: replay of chats.upsert is idempotent: processing an event E a second
\* time right after the first leaves every chat's stored ConversationMeta
\* and the knownJIDs set as they were after the first time; and from every
\* reachable store, processing any E twice gives what processing it once
\* gives.
C7_ChatsUpsertIdempotent ==
  /\ \A n \in TaskIds :
       IsReplay(n)
         => chatmeta = tasks[n].pre.chatmeta
              /\ knownJIDs = tasks[n].pre.knownJIDs
  /\ \A E \in ChatBatches :
       LET once == AfterChatsUpsert(Store, E)
           twice == AfterChatsUpsert(once, E)
       IN twice.chatmeta = once.chatmeta /\ twice.knownJIDs = once.knownJIDs

\* C7 witness: the event [chatA, chatA2] (one chat id, two values) has been
\* processed twice in succession.
C7_Witness ==
  /\ IsReplay(2)
  /\ tasks[2].ev = <<chatA, chatA2>>
  /\ chatmeta[PersonJID] = JSONstringify(chatA2)

\* Two JavaScript objects are equal as values: every property read gives the
\* same value on both (a property that is absent reads as undefined).
SameProp(a, b, k) ==
  IF k \in ObjectKeys
    THEN (k \in DOMAIN a <=> k \in DOMAIN b)
           /\ (k \in DOMAIN a => a[k] = b[k])
    ELSE Prop(a, k) = Prop(b, k)
SameObject(a, b) == \A k \in DOMAIN a \cup DOMAIN b : SameProp(a, b, k)

\* Call n of getGroupMetadata found nothing stored, fetched a value from the
\* remote and stored it.
FellBack(n) ==
  /\ tasks[n].kind = "getGroupMetadata" /\ Completed(n)
  /\ tasks[n].ev.jid \notin DOMAIN tasks[n].pre.groupmeta
  /\ tasks[n].loc.latestMeta \in RemoteMetas(tasks[n].ev.jid)

\* C10: getGroupMetadata(g) with nothing stored for g and a remote fetch
\* that succeeds with M stores M under g's groupmeta key and returns M; a
\* second getGroupMetadata(g) with no store change in between returns a
\* value equal to M.
C10_GroupMetadataFallback ==
  /\ [][\A n \in TaskIds :
          LET t == tasks[n]
          IN (/\ t.st = "run"
              /\ Head(t.ops).op = "ggm.set"
              /\ tasks'[n] # t
              /\ tasks'[n].failed = t.failed)
             => /\ Head(t.ops).jid \in DOMAIN groupmeta'
                /\ SameObject(JSONparse(groupmeta'[Head(t.ops).jid]),
                              t.loc.latestMeta)]_vars
  /\ [](\A n \in TaskIds :
          FellBack(n) => tasks[n].ret = Ret(tasks[n].loc.latestMeta))
  /\ [](\A n \in TaskIds :
          (/\ n >= 2
           /\ FellBack(n - 1) /\ tasks[n - 1].alone
           /\ tasks[n].kind = "getGroupMetadata"
           /\ tasks[n].ev.jid = tasks[n - 1].ev.jid
           /\ tasks[n].alone /\ tasks[n].st = "done")
          => /\ ~tasks[n].ret.null
             /\ SameObject(tasks[n].ret.val, tasks[n - 1].loc.latestMeta))

\* C10 witness: two calls of getGroupMetadata for the group, one after the
\* other; the first found nothing stored and fetched the metadata with
\* subject "Team", the second returned.
C10_Witness ==
  /\ Len(tasks) = 2
  /\ FellBack(1) /\ tasks[1].alone /\ tasks[1].ev.jid = GroupJID
  /\ tasks[1].loc.latestMeta.subject = "Team"
  /\ tasks[2].kind = "getGroupMetadata" /\ tasks[2].ev.jid = GroupJID
  /\ tasks[2].alone /\ tasks[2].st = "done"

\* Invocation n of getGroupMetadata, suspended at its remote fetch, takes a
\* step in which the fetch rejects (a fetch that resolves leaves the store
\* write still to do).
FetchRejects(n) ==
  /\ tasks[n].kind = "getGroupMetadata" /\ tasks[n].st = "run"
  /\ Head(tasks[n].ops).op = "ggm.fetch"
  /\ tasks'[n] # tasks[n]
  /\ tasks'[n].ops = <<>>

\* getGroupMetadata is called with no socket bound and nothing stored for the
\* id, and its store read succeeds.
CalledUnbound ==
  /\ Len(tasks') = Len(tasks) + 1
  /\ tasks'[Len(tasks')].kind = "getGroupMetadata"
  /\ ~socketRef
  /\ tasks'[Len(tasks')].ev.jid \notin DOMAIN groupmeta
  /\ ~tasks'[Len(tasks')].failed

ReturnsNull(t) == t.st = "done" /\ t.ret = NullRet

\* C11: getGroupMetadata never hard-fails for missing metadata: when nothing
\* is stored for g and the remote fetch rejects, or no socket is bound, the
\* call returns null (it does not reject) and the store is left unchanged.
C11_MissingMetadataIsNull ==
  [][/\ \A n \in TaskIds :
          FetchRejects(n) => ReturnsNull(tasks'[n]) /\ Store' = Store
     /\ CalledUnbound => ReturnsNull(tasks'[Len(tasks')]) /\ Store' = Store
    ]_vars

\* C11 witness: a socket was bound (an event was delivered), then
\* getGroupMetadata was called for an id with nothing stored, its store read
\* succeeded, its fetch rejected, and it returned null.
C11_Witness ==
  /\ Len(tasks) = 2
  /\ tasks[1].kind = "groups.upsert" /\ tasks[1].st = "done"
  /\ tasks[2].kind = "getGroupMetadata" /\ tasks[2].ev.jid = PersonJID
  /\ ~tasks[2].failed /\ ReturnsNull(tasks[2])
  /\ tasks[2].loc.latestMeta = EmptyObject
  /\ PersonJID \notin DOMAIN groupmeta

EventKinds ==
  {"messaging-history.set", "messages.upsert", "chats.upsert",
   "contacts.upsert", "groups.upsert", "groups.update",
   "group-participants.update"}

\* C12: store failures on event-handling paths are caught per event: for
\* every event kind, a failing store call (get, set, rpush, sadd) inside the
\* handler never leaves the handler as a rejection.
C12_StoreFailuresCaught ==
  \A i \in TaskIds : tasks[i].kind \in EventKinds => tasks[i].st # "rejected"

\* Record r is the fully merged record of a participants update: the
\* annotation of the update, every property of the fetched metadata, and
\* every property of the metadata read from the store that the fetched
\* metadata does not have.
FullyMerged(r, existingMeta, latestMeta, update) ==
  /\ "lastParticipantUpdate" \in DOMAIN r
  /\ r.lastParticipantUpdate.participants = update.participants
  /\ r.lastParticipantUpdate.action = update.action
  /\ r.lastParticipantUpdate.updatedAt \in Times
  /\ \A k \in DOMAIN latestMeta \ {"lastParticipantUpdate"} :
       SameProp(r, latestMeta, k)
  /\ \A k \in DOMAIN existingMeta
              \ (DOMAIN latestMeta \cup {"lastParticipantUpdate"}) :
       SameProp(r, existingMeta, k)

\* C13: the group-participants.update handler is failure-tolerant: whatever
\* fails inside it (the remote fetch, the store read or the decoding of what
\* it read, the store write), the handler never rejects, and every step of
\* it leaves the store unchanged or writes the fully merged record of its
\* group and nothing else.  (A failing read and a failing decode both leave
\* the try block at the same place: the failure of get.groupmeta.)
C13_ParticipantsUpdateFailureTolerant ==
  /\ [](\A n \in TaskIds :
          tasks[n].kind = "group-participants.update"
            => tasks[n].st # "rejected")
  /\ [][\A n \in 1..Len(tasks') :
          LET t == tasks'[n]
              g == t.ev.id
          IN (/\ t.kind = "group-participants.update"
              /\ (n \in TaskIds => tasks[n] # t))
             => \/ Store' = Store
                \/ /\ g \in DOMAIN groupmeta'
                   /\ FullyMerged(JSONparse(groupmeta'[g]), t.loc.existing,
                                  t.loc.latestMeta, t.ev)
                   /\ \A j \in DOMAIN groupmeta \ {g} :
                        j \in DOMAIN groupmeta' /\ groupmeta'[j] = groupmeta[j]
                   /\ DOMAIN groupmeta' \subseteq DOMAIN groupmeta \cup {g}
                   /\ <<chatmeta, contact, messages, knownJIDs>>'
                        = <<chatmeta, contact, messages, knownJIDs>>]_vars

\* C13 witness: a participants update whose store call failed ended without
\* rejecting and left the store empty; the groups.upsert delivered after it
\* was processed.
C13_Witness ==
  /\ Len(tasks) = 2
  /\ tasks[1].kind = "group-participants.update"
  /\ tasks[1].failed /\ tasks[1].st = "done"
  /\ tasks[1].alone /\ tasks[2].alone
  /\ tasks[2].kind = "groups.upsert" /\ Completed(2)
  /\ DOMAIN groupmeta = {GroupJID}
  /\ groupmeta[GroupJID] = JSONstringify(groupTeam)

\* The ids of the chats that the delivered events carry.
ChatIdsDelivered ==
  UNION {IF tasks[i].kind = "messaging-history.set"
           THEN {c.id : c \in Range(tasks[i].ev.chats)}
           ELSE IF tasks[i].kind = "chats.upsert"
                  THEN {c.id : c \in Range(tasks[i].ev)} ELSE {}
         : i \in TaskIds}

\* C14: every entry of every stored message list carries a content payload
\* (msg.message is present and not empty), and a message without content
\* never makes its conversation known: a known conversation that no
\* delivered chat names has a stored message, and the stored messages are
\* content-bearing messages that delivered events carried.
C14_StoredMessagesHaveContent ==
  /\ \A c \in JID : \A k \in 1..Len(messages[c]) :
       /\ "message" \in DOMAIN JSONparse(messages[c][k])
       /\ Truthy(JSONparse(messages[c][k]).message)
       /\ \E i \in TaskIds :
            JSONparse(messages[c][k]).id
              \in Range(MessageIds(Carried(tasks[i], c)))
  /\ \A c \in knownJIDs \ ChatIdsDelivered : messages[c] # <<>>

\* C14 witness: messages.upsert delivered a group message whose content is
\* null, a contentless message and a message with content; a history
\* snapshot then delivered the null-content group message; only the message
\* with content is stored and only its conversation is known.
C14_Witness ==
  /\ Len(tasks) = 2 /\ Completed(1) /\ Completed(2)
  /\ tasks[1].kind = "messages.upsert"
  /\ tasks[1].ev.messages = <<nullG, revokedA, m1>>
  /\ tasks[2].kind = "messaging-history.set"
  /\ tasks[2].ev.messages = <<nullG>>
  /\ Stored(PersonJID) = <<"1">>
  /\ messages[GroupJID] = <<>>
  /\ knownJIDs = {PersonJID}

\* The chats an event carries whose id is c, in the order it carries them.
ChatsCarried(t, c) ==
  LET chats == IF t.kind = "messaging-history.set" THEN t.ev.chats
               ELSE IF t.kind = "chats.upsert" THEN t.ev ELSE <<>>
  IN SelectSeq(chats, LAMBDA x : x.id = c)

\* Event j is the last delivered event that writes the ConversationMeta of c.
LastWriterOf(j, c) ==
  /\ ChatsCarried(tasks[j], c) # <<>>
  /\ \A k \in TaskIds : k > j => ChatsCarried(tasks[k], c) = <<>>

\* C15: events take effect in delivery order: when two events that write the
\* ConversationMeta of chat c were delivered E1 then E2 (E2 possibly while
\* E1's handler was suspended) and every handler has completed, the stored
\* ConversationMeta of c is the value E2 carried.
C15_LaterEventWins ==
  \A c \in JID : \A i, j \in TaskIds :
    (/\ i < j
     /\ ChatsCarried(tasks[i], c) # <<>>
     /\ LastWriterOf(j, c)
     /\ \A k \in TaskIds : Completed(k))
    => /\ c \in DOMAIN chatmeta
       /\ chatmeta[c]
            = JSONstringify(ChatsCarried(tasks[j], c)[
                              Len(ChatsCarried(tasks[j], c))])

\* Invocation n, suspended before its call named name, takes a step in which
\* the call succeeds.
Succeeds(n, name) ==
  /\ tasks[n].st = "run"
  /\ Head(tasks[n].ops).op = name
  /\ tasks'[n] # tasks[n]
  /\ tasks'[n].failed = tasks[n].failed

\* Invocations i < j are two single-contact contacts.upsert for one contact
\* id that overlapped: both read the stored contact before either wrote.
OverlappingContactMerges(i, j) ==
  /\ i < j /\ Len(tasks) = 2
  /\ tasks[i].kind = "contacts.upsert" /\ tasks[j].kind = "contacts.upsert"
  /\ Len(tasks[i].ev) = 1 /\ Len(tasks[j].ev) = 1
  /\ tasks[i].ev[1].id = tasks[j].ev[1].id
  /\ Completed(i) /\ Completed(j)
  /\ ~tasks[j].alone
  /\ tasks[i].loc.existing = tasks[j].loc.existing

\* C16: merge-then-write is not atomic, the last writer wins: the record a
\* merging handler writes is its merge against what it read, whatever has
\* been written to the key since; so when two contacts.upsert for one id
\* overlap, the final record is the merge of one of them alone against the
\* state both read.
C16_LastWriterWins ==
  /\ [][\A n \in TaskIds :
          LET t == tasks[n]
              op == Head(t.ops)
          IN /\ Succeeds(n, "set.mergedContact")
                  => \A f \in ContactFields :
                       Prop(JSONparse(contact'[op.jid]), f)
                         = ClaimedContactField(t.loc.existing, op.val, f)
             /\ Succeeds(n, "set.mergedGroup")
                  => groupmeta'[op.jid]
                       = JSONstringify(mergeGroupUpdate(t.loc.existing, op.val,
                                                        tasks'[n].loc.now))
             /\ Succeeds(n, "set.participants")
                  => groupmeta'[op.jid]
                       = JSONstringify(
                           mergeParticipantUpdate(t.loc.existing,
                             t.loc.latestMeta, op.val, tasks'[n].loc.now))
       ]_vars
  /\ [](\A i, j \in TaskIds :
          OverlappingContactMerges(i, j)
            => \E k \in {i, j} : \A f \in ContactFields :
                 Prop(JSONparse(contact[tasks[i].ev[1].id]), f)
                   = ClaimedContactField(tasks[i].loc.existing,
                                         tasks[k].ev[1], f))

\* C16 witness: contacts.upsert of {imgUrl} and of {name, notify} for one id
\* overlapped, both reading the empty store; the one with imgUrl wrote
\* first, and the stored contact has no imgUrl.
C16_Witness ==
  /\ OverlappingContactMerges(1, 2)
  /\ tasks[1].ev = <<contactImg>> /\ tasks[2].ev = <<contactAlice>>
  /\ tasks[1].loc.existing = EmptyObject
  /\ "imgUrl" \notin DOMAIN contact[PersonJID]
  /\ contact[PersonJID].name = "Alice"

\* The same for groups.update and group-participants.update of one group:
\* both read the empty store, groups.update wrote first, and the stored
\* record has neither its subject nor its lastGroupUpdate.
C16_WitnessGroups ==
  /\ Len(tasks) = 2 /\ Completed(1) /\ Completed(2)
  /\ tasks[1].kind = "groups.update"
  /\ tasks[2].kind = "group-participants.update"
  /\ tasks[1].loc.existing = EmptyObject
  /\ tasks[2].loc.existing = EmptyObject
  /\ tasks[2].loc.latestMeta = EmptyObject
  /\ GroupJID \in DOMAIN groupmeta
  /\ DOMAIN groupmeta[GroupJID] = {"lastParticipantUpdate"}

\* Every group's stored metadata other than g's is the same after the step.
OtherGroupsUnchanged(g) ==
  /\ DOMAIN groupmeta' \ {g} = DOMAIN groupmeta \ {g}
  /\ \A j \in DOMAIN groupmeta \ {g} : groupmeta'[j] = groupmeta[j]

\* C17: groups.update is an existing-then-incoming overlay: the record
\* written for patch p of group g, the handler having read the stored
\* metadata e, has p's value for every field p names, e's value for every
\* field of e that p does not name (other than lastGroupUpdate), and
\* lastGroupUpdate = {updatedAt: the time of the update}; the metadata of
\* every other group is unchanged; and a handler that ran alone read what
\* was stored when its event was delivered.
C17_GroupsUpdateOverlay ==
  /\ [][\A n \in TaskIds :
          Succeeds(n, "set.mergedGroup")
            => LET e == tasks[n].loc.existing
                   p == Head(tasks[n].ops).val
                   g == Head(tasks[n].ops).jid
                   r == JSONparse(groupmeta'[g])
               IN /\ g = p.id
                  /\ \A k \in DOMAIN p \ {"lastGroupUpdate"} : SameProp(r, p, k)
                  /\ \A k \in DOMAIN e \ (DOMAIN p \cup {"lastGroupUpdate"}) :
                       SameProp(r, e, k)
                  /\ "lastGroupUpdate" \in DOMAIN r
                  /\ r.lastGroupUpdate = [updatedAt |-> tasks'[n].loc.now]
                  /\ tasks'[n].loc.now \in Times
                  /\ OtherGroupsUnchanged(g)]_vars
  /\ [](\A n \in TaskIds :
          (/\ tasks[n].kind = "groups.update" /\ Len(tasks[n].ev) = 1
           /\ Completed(n) /\ tasks[n].alone /\ n = Len(tasks))
          => tasks[n].loc.existing
               = getOrEmpty(tasks[n].pre.groupmeta, tasks[n].ev[1].id))

\* C17 witness: one event patched the group with {subject: "New"} and stored
\* another group; then the patch {desc: "d", owner: undefined} was processed
\* alone: desc is "d", subject is still "New", and the other group is as it
\* was.
C17_Witness ==
  /\ Len(tasks) = 2 /\ Completed(1) /\ Completed(2)
  /\ tasks[1].kind = "groups.update"
  /\ tasks[1].ev = <<groupPatch, groupOther>>
  /\ tasks[2].kind = "groups.update" /\ tasks[2].ev = <<groupPatchDesc>>
  /\ tasks[2].alone
  /\ DOMAIN groupmeta = JID
  /\ groupmeta[GroupJID].subject = "New"
  /\ groupmeta[GroupJID].desc = "d"
  /\ "owner" \notin DOMAIN groupmeta[GroupJID]
  /\ groupmeta[PersonJID].subject = "Other"

\* What the claim takes the annotation from: the fetched metadata when the
\* fetch succeeded, the metadata read from the store when it failed.
Freshest(t) ==
  IF DOMAIN t.loc.latestMeta # {} THEN t.loc.latestMeta ELSE t.loc.existing

ParticipantsOf(meta) ==
  IF "participants" \in DOMAIN meta THEN Range(meta.participants) ELSE {}

\* C18: on group-participants.update the annotation's participantCount and
\* adminList are computed from the freshest metadata: the fetched one when
\* the fetch succeeds, the stored one when it fails (then participantCount is
\* the number of stored participants and adminList the ids of the stored
\* admins).
C18_AnnotationFromFreshest ==
  [][\A n \in TaskIds :
       Succeeds(n, "set.participants")
         => LET g == Head(tasks[n].ops).jid
                a == JSONparse(groupmeta'[g]).lastParticipantUpdate
                fresh == ParticipantsOf(Freshest(tasks[n]))
            IN /\ a.participantCount = Cardinality(fresh)
               /\ Range(a.adminList)
                    = {p.id : p \in {x \in fresh : Truthy(x.admin)}}]_vars

\* C19: registration consistency at quiescence: whenever no handler is in
\* flight, every conversation id that has a non-empty stored message list
\* or a stored ConversationMeta is a member of knownJIDs, also after a store
\* call has failed.
C19_StoredImpliesKnown ==
  NoneInFlight
    => \A c \in JID :
         (messages[c] # <<>> \/ c \in DOMAIN chatmeta) => c \in knownJIDs

\* Sequence run is a contiguous run of sequence list.
IsContiguousRun(run, list) ==
  \E s \in 0..Len(list) :
    /\ s + Len(run) <= Len(list)
    /\ \A k \in 1..Len(run) : run[k] = list[s + k]

\* C20: getSingleChatMessages(jid, count, 'latest') never returns more than
\* count entries and always returns a contiguous run of the stored list in
\* original order, also when messages are appended to the conversation
\* between its length read and its range read, and when the list was empty
\* at the length read.
C20_LatestWindowBounded ==
  \A i \in TaskIds :
    (/\ tasks[i].kind = "getSingleChatMessages" /\ tasks[i].st = "done"
     /\ directionOf(tasks[i].ev) = "latest")
    => /\ Len(tasks[i].ret.val) <= countOf(tasks[i].ev)
       /\ IsContiguousRun(tasks[i].ret.val,
                          parseAll(messages[tasks[i].ev.jid]))

====
